---- MODULE Spec2Model ----
(***************************************************************************)
(* cloudwatch-logs-export: the Registration Tool (src/add_log_group.py)    *)
(* and the Export Orchestrator (src/lambda/index.py), which share only the *)
(* configuration table.                                                    *)
(*                                                                         *)
(* Python strings that the code inspects or builds (log group names,       *)
(* prefixes, terminal input, dates) are sequences of one-character         *)
(* strings; fixed messages and status words are TLA+ strings.  The wall    *)
(* clock counts ticks, TicksPerMs to the millisecond, and is read as UTC.  *)
(***************************************************************************)
EXTENDS Integers, Sequences, FiniteSets, TLC

VARIABLES
    table,                      \* the configuration table, in scan order
    clock,                      \* the wall clock, in ticks
    EXPORT_TIME_RANGE_MINUTES,  \* index.py module level, set at start-up
    h_pc,                       \* handler: "idle", "loop", "returned"
    table_at_start,             \* the table when the invocation started
    log_configs,                \* handler local
    h_i,                        \* handler: position of the for loop (1-based)
    results,                    \* handler local
    response,                   \* what handler returned
    api_calls,                  \* create_export_task calls of the invocation
    error_site,                 \* where the invocation's exception was raised
    log_groups,                 \* main: the catalog as fetched
    r_pc,                       \* main: position
    selected_groups,            \* get_log_group_selection local
    \* kept until main has read the bucket name:
    offered,                    \* what the last selection input was
    answered,                   \* what the answer to its confirmation was
    rejected,                   \* the in-range start of the batch last rejected
    selected_log_groups,        \* main local
    s3_bucket_name,             \* main local
    s3_prefix,                  \* main local
    r_j,                        \* main: position of the write loop (1-based)
    added_count,                \* main local
    put_calls,                  \* put_item calls of the run, with outcome
    output,                     \* main: the final report printed
    exit_code                   \* main: process exit code

hvars == <<h_pc, table_at_start, log_configs, h_i, results, response,
           api_calls, error_site>>
rvars == <<log_groups, r_pc, selected_groups, offered, answered,
           rejected, selected_log_groups, s3_bucket_name, s3_prefix,
           r_j, added_count, put_calls, output, exit_code>>
vars == <<table, clock, EXPORT_TIME_RANGE_MINUTES, hvars, rvars>>

----------------------------------------------------------------------------
(* Bounds of the model *)

\* most records in the table at start-up
MaxRecords == 2
\* most log groups in the catalog
MaxGroups == 2
\* most comma-separated fields in one selection input
MaxFields == 2
\* most ticks the clock advances in one behaviour
MaxAdvance == 2
\* ticks per millisecond (datetime has 1000 microseconds per millisecond)
TicksPerMs == 2

----------------------------------------------------------------------------
(* Python values *)

None == <<"None">>

Digits == <<"0", "1", "2", "3", "4", "5", "6", "7", "8", "9">>

IsDigit(c) == \E k \in 1..10 : Digits[k] = c

DigitValue(c) == (CHOOSE k \in 1..10 : Digits[k] = c) - 1

\* format(n, "0{width}d") for n >= 0
RECURSIVE ZeroPad(_, _)
ZeroPad(n, width) ==
    IF width <= 1 /\ n < 10 THEN <<Digits[n + 1]>>
    ELSE ZeroPad(n \div 10, width - 1) \o <<Digits[(n % 10) + 1]>>

\* bool(x) for a str or None
Truthy(x) == x # None /\ x # <<>>

----------------------------------------------------------------------------
(* datetime *)

MsPerMinute == 60000
MsPerDay == 86400000

\* int(d.timestamp() * 1000): milliseconds since the epoch, truncated
TimestampMs(t) == t \div TicksPerMs

\* d - timedelta(minutes=m)
MinusMinutes(t, m) == t - m * MsPerMinute * TicksPerMs

\* the proleptic Gregorian date <<year, month, day>> of a day number
\* (days since 1970-01-01), as datetime computes it
CivilFromDays(days) ==
    LET z == days + 719468
        era == z \div 146097
        doe == z - era * 146097
        yoe == (doe - doe \div 1460 + doe \div 36524 - doe \div 146096) \div 365
        doy == doe - (365 * yoe + yoe \div 4 - yoe \div 100)
        mp == (5 * doy + 2) \div 153
        d == doy - (153 * mp + 2) \div 5 + 1
        m == IF mp < 10 THEN mp + 3 ELSE mp - 9
        y == yoe + era * 400 + (IF m <= 2 THEN 1 ELSE 0)
    IN <<y, m, d>>

\* d.strftime('%Y-%m-%d')
StrftimeYmd(t) ==
    LET ymd == CivilFromDays((t \div TicksPerMs) \div MsPerDay)
    IN ZeroPad(ymd[1], 4) \o <<"-">> \o ZeroPad(ymd[2], 2) \o <<"-">>
         \o ZeroPad(ymd[3], 2)

\* d.isoformat(): the fraction is left out when it is zero
IsoFormat(t) ==
    LET ms == (t \div TicksPerMs) % MsPerDay
        micros == (ms % 1000) * 1000 + ((t % TicksPerMs) * 1000) \div TicksPerMs
        hms == ZeroPad(ms \div 3600000, 2) \o <<":">>
                 \o ZeroPad((ms \div 60000) % 60, 2) \o <<":">>
                 \o ZeroPad((ms \div 1000) % 60, 2)
    IN StrftimeYmd(t) \o <<"T">> \o hms
         \o (IF micros = 0 THEN <<>> ELSE <<".">> \o ZeroPad(micros, 6))

\* the first instant of the behaviour: two ticks before a midnight
ClockStart == 2 * MsPerDay * TicksPerMs - 2

ClockEnd == ClockStart + MaxAdvance

\* the instants a clock read can return, given the previous read
Later(t) == {u \in t..(t + 1) : u <= ClockEnd}

----------------------------------------------------------------------------
(* str and int *)

IsSpace(c) == c = " "

RECURSIVE LStrip(_)
LStrip(s) == IF s # <<>> /\ IsSpace(Head(s)) THEN LStrip(Tail(s)) ELSE s

RECURSIVE RStrip(_)
RStrip(s) ==
    IF s # <<>> /\ IsSpace(s[Len(s)]) THEN RStrip(SubSeq(s, 1, Len(s) - 1))
    ELSE s

\* s.strip()
Strip(s) == RStrip(LStrip(s))

RECURSIVE DecimalValue(_)
DecimalValue(ds) ==
    IF ds = <<>> THEN 0
    ELSE 10 * DecimalValue(SubSeq(ds, 1, Len(ds) - 1)) + DigitValue(ds[Len(ds)])

\* the digits of an int literal: the text without blanks around it and
\* without its sign
Unsigned(s) ==
    LET b == Strip(s)
    IN IF b # <<>> /\ Head(b) \in {"+", "-"} THEN Tail(b) ELSE b

\* int(s) returns (it raises ValueError otherwise)
IsInt(s) ==
    LET ds == Unsigned(s)
    IN ds # <<>> /\ \A k \in 1..Len(ds) : IsDigit(ds[k])

\* int(s), for IsInt(s)
IntOf(s) ==
    LET b == Strip(s)
    IN IF Head(b) = "-" THEN 0 - DecimalValue(Unsigned(s))
       ELSE DecimalValue(Unsigned(s))

----------------------------------------------------------------------------
(* index.py, module level *)

DefaultMinutes == <<"1", "4", "4", "0">>

\* the values of the environment variable EXPORT_TIME_RANGE_MINUTES the
\* model starts from; None: not set
EnvValues == {None, <<"6", "0">>, <<"a", "b", "c">>, <<" ", "6", "0">>}

\* os.environ.get(name, default)
EnvGet(v, default) == IF v = None THEN default ELSE v

\* index.py 18-22
ExportTimeRangeMinutes(v) ==
    IF IsInt(EnvGet(v, DefaultMinutes)) THEN IntOf(EnvGet(v, DefaultMinutes))
    ELSE 1440

----------------------------------------------------------------------------
(* The configuration table (DynamoDB, keyed by logGroupName) *)

\* the k-th log group name
NameOf(k) == <<"g", Digits[k + 1]>>

BucketB == <<"b", "k", "t">>
PrefixP == <<"p", "/", "x">>

\* the items the table can hold for one name at start-up: complete, without
\* s3Prefix, with an empty s3Prefix, and without s3BucketName (the table
\* itself only requires the key)
ItemsFor(n) ==
    LET base == [logGroupName |-> n, s3BucketName |-> BucketB,
                 createdAt |-> IsoFormat(0)]
    IN { base,
         [logGroupName |-> n, s3BucketName |-> BucketB, s3Prefix |-> PrefixP,
          createdAt |-> IsoFormat(0)],
         [logGroupName |-> n, s3BucketName |-> BucketB, s3Prefix |-> <<>>,
          createdAt |-> IsoFormat(0)],
         [logGroupName |-> n, createdAt |-> IsoFormat(0)] }

Tables ==
    UNION { {t \in [1..n -> UNION {ItemsFor(NameOf(k)) : k \in 1..n}] :
                \A k \in 1..n : t[k].logGroupName = NameOf(k)} :
            n \in 0..MaxRecords }

\* the position of key n in table t, 0 when absent
KeyIndex(t, n) ==
    IF \E k \in 1..Len(t) : t[k].logGroupName = n
    THEN CHOOSE k \in 1..Len(t) : t[k].logGroupName = n
    ELSE 0

\* table.put_item(Item=item) when it succeeds: the item replaces the one
\* with its key, or is added
PutItem(t, item) ==
    IF KeyIndex(t, item.logGroupName) = 0 THEN Append(t, item)
    ELSE [t EXCEPT ![KeyIndex(t, item.logGroupName)] = item]

\* the first pages table.scan() can return: a lone call returns the
\* items up to the 1 MB page limit, here the first n
ScanPages(t) ==
    IF t = <<>> THEN {<<>>} ELSE {SubSeq(t, 1, n) : n \in 1..Len(t)}

\* d.get(key)
Get(d, key) == IF key \in DOMAIN d THEN d[key] ELSE None

----------------------------------------------------------------------------
(* index.py, handler *)

\* what create_export_task can answer
ApiAnswers ==
    { [ok |-> TRUE, taskId |-> "task-a"],
      [ok |-> TRUE, taskId |-> "task-b"],
      [ok |-> FALSE, error |-> "LimitExceededException"] }

\* json.dumps(s) for a str: a JSON document that is one string.  A dict
\* of strings and lists dumps to an object with the same members, which
\* the model keeps as the record.
JsonString(s) == [string |-> s]

\* index.py 36-39
NoConfigsResponse ==
    [statusCode |-> 200,
     body |-> JsonString("No log group configurations found")]

\* index.py 85-91
CompletedResponse(res) ==
    [statusCode |-> 200,
     body |-> [message |-> "CloudWatch Logs export process completed",
               results |-> res]]

\* index.py 95-101
ErrorResponse(e) ==
    [statusCode |-> 500,
     body |-> [message |-> "Error processing CloudWatch Logs export",
               error |-> e]]

ExportsSlash == <<"e", "x", "p", "o", "r", "t", "s", "/">>

\* as DestinationPrefix, with "is None" for "not"
DestinationPrefixIfNone(prefix, log_group_name, today) ==
    IF prefix = None
    THEN ExportsSlash \o log_group_name \o <<"/">> \o StrftimeYmd(today)
    ELSE prefix

\* index.py 55-57: the destination prefix, today being the clock as read
\* when it is needed
DestinationPrefix(prefix, log_group_name, today) ==
    IF ~ Truthy(prefix)
    THEN ExportsSlash \o log_group_name \o <<"/">> \o StrftimeYmd(today)
    ELSE prefix

\* index.py 49
ToTime(now) == TimestampMs(now)

\* index.py 50
FromTime(now, minutes) == TimestampMs(MinusMinutes(now, minutes))

\* index.py 59-65
ExportParams(config, to_time, from_time, prefix) ==
    [destination |-> config.s3BucketName,
     from |-> from_time,
     to |-> to_time,
     logGroupName |-> config.logGroupName,
     destinationPrefix |-> prefix]

\* index.py 72-76
StartedOutcome(log_group_name, task_id) ==
    [logGroupName |-> log_group_name, taskId |-> task_id,
     status |-> "EXPORT_STARTED"]

\* index.py 79-83
FailedOutcome(log_group_name, e) ==
    [logGroupName |-> log_group_name, error |-> e,
     status |-> "EXPORT_FAILED"]

\* index.py 72-83
OutcomeOf(log_group_name, answer) ==
    IF answer.ok THEN StartedOutcome(log_group_name, answer.taskId)
    ELSE FailedOutcome(log_group_name, answer.error)

\* index.py 72-83: the outcome joins the results whatever the answer
AppendOutcomeOnlyStarted(res, log_group_name, answer) ==
    IF answer.ok THEN Append(res, OutcomeOf(log_group_name, answer)) ELSE res

AppendOutcome(res, log_group_name, answer) ==
    Append(res, OutcomeOf(log_group_name, answer))

\* index.py 44-45 return: the record has the keys they subscript
HasRequiredKeys(config) ==
    "logGroupName" \in DOMAIN config /\ "s3BucketName" \in DOMAIN config

\* every record has them
WellFormed(configs) == \A k \in 1..Len(configs) : HasRequiredKeys(configs[k])

\* str(e) of the KeyError lines 44-45 raise
KeyErrorText(config) ==
    IF "logGroupName" \notin DOMAIN config THEN "'logGroupName'"
    ELSE "'s3BucketName'"

\* as NoConfigs, the test left out
NoConfigsNever(configs) == FALSE

\* index.py 34: not log_configs
NoConfigs(configs) == configs = <<>>

\* index.py 31, raising: the table cannot be read
HandlerScanFails ==
    /\ h_pc = "idle"
    /\ h_pc' = "returned"
    /\ table_at_start' = table
    /\ response' = ErrorResponse("EndpointConnectionError")
    /\ error_site' = "scan"
    /\ UNCHANGED <<log_configs, h_i, results, api_calls>>
    /\ UNCHANGED <<table, clock, EXPORT_TIME_RANGE_MINUTES, rvars>>

\* index.py 31-41
HandlerScan ==
    /\ h_pc = "idle"
    /\ table_at_start' = table
    /\ \E page \in ScanPages(table) :
         /\ log_configs' = page
         /\ IF NoConfigs(page)
            THEN /\ h_pc' = "returned"
                 /\ response' = NoConfigsResponse
            ELSE /\ h_pc' = "loop"
                 /\ response' = None
    /\ results' = <<>>
    /\ h_i' = 1
    /\ UNCHANGED <<api_calls, error_site>>
    /\ UNCHANGED <<table, clock, EXPORT_TIME_RANGE_MINUTES, rvars>>

\* index.py 44-45 raising KeyError, caught at 93
HandlerRecordKeyError ==
    /\ h_pc = "loop"
    /\ h_i <= Len(log_configs)
    /\ ~ HasRequiredKeys(log_configs[h_i])
    /\ h_pc' = "returned"
    /\ response' = ErrorResponse(KeyErrorText(log_configs[h_i]))
    /\ error_site' = "record"
    /\ UNCHANGED <<table_at_start, log_configs, h_i, results, api_calls>>
    /\ UNCHANGED <<table, clock, EXPORT_TIME_RANGE_MINUTES, rvars>>

\* index.py 44-83: one pass of the loop.  The clock is read at 49, at 50
\* and, when the record gives no prefix, at 56.
HandlerRecord ==
    /\ h_pc = "loop"
    /\ h_i <= Len(log_configs)
    /\ HasRequiredKeys(log_configs[h_i])
    /\ \E now_to \in Later(clock) : \E now_from \in Later(now_to) :
         \E now_today \in Later(now_from) : \E answer \in ApiAnswers :
           LET config == log_configs[h_i]
               reads_today == ~ Truthy(Get(config, "s3Prefix"))
               params ==
                   ExportParams(config, ToTime(now_to),
                       FromTime(now_from, EXPORT_TIME_RANGE_MINUTES),
                       DestinationPrefix(Get(config, "s3Prefix"),
                                         config.logGroupName, now_today))
           IN /\ reads_today \/ now_today = now_from
              /\ clock' = now_today
              /\ api_calls' = Append(api_calls,
                     [params |-> params, answer |-> answer, config |-> config,
                      now_to |-> now_to, now_from |-> now_from,
                      now_today |-> IF reads_today THEN {now_today} ELSE {}])
              /\ results' =
                     AppendOutcome(results, config.logGroupName, answer)
    /\ h_i' = h_i + 1
    /\ UNCHANGED <<h_pc, table_at_start, log_configs, response, error_site>>
    /\ UNCHANGED <<table, EXPORT_TIME_RANGE_MINUTES, rvars>>

\* index.py 85-91: the loop is over
HandlerReturn ==
    /\ h_pc = "loop"
    /\ h_i > Len(log_configs)
    /\ h_pc' = "returned"
    /\ response' = CompletedResponse(results)
    /\ UNCHANGED <<table_at_start, log_configs, h_i, results, api_calls,
                   error_site>>
    /\ UNCHANGED <<table, clock, EXPORT_TIME_RANGE_MINUTES, rvars>>

\* the schedule invokes handler again
HandlerInvoke ==
    /\ h_pc = "returned"
    /\ h_pc' = "idle"
    /\ table_at_start' = <<>>
    /\ log_configs' = <<>>
    /\ h_i' = 1
    /\ results' = <<>>
    /\ response' = None
    /\ api_calls' = <<>>
    /\ error_site' = "none"
    /\ UNCHANGED <<table, clock, EXPORT_TIME_RANGE_MINUTES, rvars>>

HandlerIdle ==
    /\ h_pc = "idle"
    /\ table_at_start = <<>>
    /\ log_configs = <<>>
    /\ h_i = 1
    /\ results = <<>>
    /\ response = None
    /\ api_calls = <<>>
    /\ error_site = "none"

NothingOffered == [kind |-> "none", ints |-> <<>>, hits |-> {}]

MainIdle ==
    /\ log_groups = <<>>
    /\ r_pc = "start"
    /\ selected_groups = <<>>
    /\ offered = NothingOffered
    /\ answered = "none"
    /\ rejected = <<>>
    /\ selected_log_groups = <<>>
    /\ s3_bucket_name = None
    /\ s3_prefix = None
    /\ r_j = 1
    /\ added_count = 0
    /\ put_calls = <<>>
    /\ output = [text |-> "none"]
    /\ exit_code = -1

InitExport ==
    /\ table \in Tables
    /\ clock = ClockStart
    /\ EXPORT_TIME_RANGE_MINUTES \in {ExportTimeRangeMinutes(v) : v \in EnvValues}
    /\ HandlerIdle
    /\ MainIdle

NextExport ==
    \/ HandlerScanFails
    \/ HandlerScan
    \/ HandlerRecordKeyError
    \/ HandlerRecord
    \/ HandlerReturn
    \/ HandlerInvoke

SpecExport == InitExport /\ [][NextExport]_vars

----------------------------------------------------------------------------
(* Claims about handler *)

Returned == h_pc = "returned"

\* the outcome the claim gives a record whose request got this answer
ExpectedOutcome(config, answer) ==
    IF answer.ok
    THEN [logGroupName |-> config.logGroupName, taskId |-> answer.taskId,
          status |-> "EXPORT_STARTED"]
    ELSE [logGroupName |-> config.logGroupName, error |-> answer.error,
          status |-> "EXPORT_FAILED"]

\* C1: when handler has returned after reading a non-empty sequence of
\* records that all carry logGroupName and s3BucketName, the status code is
\* 200, one export request was issued per record read, in order, and the
\* results list holds one outcome per record read, in order: EXPORT_STARTED
\* with the task id where the request succeeded, EXPORT_FAILED with the
\* error where it was rejected.
C1_OutcomePerRecord ==
    (Returned /\ log_configs # <<>> /\ WellFormed(log_configs)) =>
        /\ response.statusCode = 200
        /\ "results" \in DOMAIN response.body
        /\ Len(response.body.results) = Len(log_configs)
        /\ Len(api_calls) = Len(log_configs)
        /\ \A k \in 1..Len(log_configs) :
             /\ api_calls[k].params.logGroupName = log_configs[k].logGroupName
             /\ response.body.results[k] =
                    ExpectedOutcome(log_configs[k], api_calls[k].answer)

\* two records read, the first rejected, the second started
C1_Witness ==
    /\ Returned
    /\ Len(log_configs) = 2
    /\ WellFormed(log_configs)
    /\ ~ api_calls[1].answer.ok
    /\ api_calls[2].answer.ok
    /\ response.body.results[2].status = "EXPORT_STARTED"

\* C2: handler always returns a structured result, and the result has
\* status code 500 only for an error outside the processing of one record.
C2_RecordErrorNeverFails ==
    Returned =>
        /\ response.statusCode \in {200, 500}
        /\ response.statusCode = 500 => error_site # "record"

\* C3: when handler has returned 200, every record that was in the table
\* when the invocation started has exactly one export request and exactly
\* one outcome.
C3_AllRecordsExported ==
    (Returned /\ response.statusCode = 200) =>
        \A k \in 1..Len(table_at_start) :
            /\ Cardinality({c \in 1..Len(api_calls) :
                   api_calls[c].params.logGroupName
                     = table_at_start[k].logGroupName}) = 1
            /\ Cardinality({c \in 1..Len(results) :
                   results[c].logGroupName
                     = table_at_start[k].logGroupName}) = 1

\* C4: every export request of an invocation carries to - from equal to
\* the configured minutes in milliseconds, and all requests of the
\* invocation carry the same from and to.
C4_SingleInstant ==
    \A c \in 1..Len(api_calls) :
        /\ api_calls[c].params.to - api_calls[c].params.from
             = EXPORT_TIME_RANGE_MINUTES * MsPerMinute
        /\ api_calls[c].params.to = api_calls[1].params.to
        /\ api_calls[c].params.from = api_calls[1].params.from

\* days since 1970-01-01 of a proleptic Gregorian date
DaysFromCivil(y, m, d) ==
    LET yy == IF m <= 2 THEN y - 1 ELSE y
        era == yy \div 400
        yoe == yy - era * 400
        mp == IF m > 2 THEN m - 3 ELSE m + 9
        doy == (153 * mp + 2) \div 5 + d - 1
        doe == yoe * 365 + yoe \div 4 - yoe \div 100 + doy
    IN era * 146097 + doe - 719468

AllDigits(s) == \A k \in 1..Len(s) : IsDigit(s[k])

\* s reads YYYY-MM-DD and names the day the instant t falls on
IsDateOf(s, t) ==
    /\ Len(s) = 10
    /\ s[5] = "-" /\ s[8] = "-"
    /\ AllDigits(SubSeq(s, 1, 4))
    /\ AllDigits(SubSeq(s, 6, 7))
    /\ AllDigits(SubSeq(s, 9, 10))
    /\ DecimalValue(SubSeq(s, 6, 7)) \in 1..12
    /\ DecimalValue(SubSeq(s, 9, 10)) \in 1..31
    /\ DaysFromCivil(DecimalValue(SubSeq(s, 1, 4)),
                     DecimalValue(SubSeq(s, 6, 7)),
                     DecimalValue(SubSeq(s, 9, 10)))
         = (t \div TicksPerMs) \div MsPerDay

\* p is exports/{name}/{the date of the one instant in when}
IsDefaultPrefix(p, name, when) ==
    /\ Len(p) = Len(ExportsSlash) + Len(name) + 11
    /\ SubSeq(p, 1, Len(ExportsSlash)) = ExportsSlash
    /\ SubSeq(p, Len(ExportsSlash) + 1, Len(ExportsSlash) + Len(name)) = name
    /\ p[Len(ExportsSlash) + Len(name) + 1] = "/"
    /\ \E t \in when :
         IsDateOf(SubSeq(p, Len(ExportsSlash) + Len(name) + 2, Len(p)), t)

DestinationIsTheRecords(c) ==
    /\ c.params.destination = c.config.s3BucketName
    /\ c.params.logGroupName = c.config.logGroupName

\* C5 as stated: the prefix of a record's export request is its s3Prefix
\* unchanged when the record has one and exports/{logGroupName}/{date}
\* when it has none; bucket and source name are the record's.
C5_PrefixAsStated ==
    \A k \in 1..Len(api_calls) :
        LET c == api_calls[k]
        IN /\ DestinationIsTheRecords(c)
           /\ IF "s3Prefix" \in DOMAIN c.config
              THEN c.params.destinationPrefix = c.config.s3Prefix
              ELSE IsDefaultPrefix(c.params.destinationPrefix,
                                   c.config.logGroupName, c.now_today)

\* C5, amended: the prefix of a record's export request is its s3Prefix
\* unchanged when the record has a non-empty one, and
\* exports/{logGroupName}/{date of the clock read at line 56} when s3Prefix
\* is absent or empty; bucket and source name are the record's.
C5_PrefixNonEmptyOrDefault ==
    \A k \in 1..Len(api_calls) :
        LET c == api_calls[k]
        IN /\ DestinationIsTheRecords(c)
           /\ IF "s3Prefix" \in DOMAIN c.config /\ c.config.s3Prefix # <<>>
              THEN c.params.destinationPrefix = c.config.s3Prefix
              ELSE IsDefaultPrefix(c.params.destinationPrefix,
                                   c.config.logGroupName, c.now_today)

\* one invocation, started before midnight: the first record has an empty
\* s3Prefix and got the default dated 1970-01-02, the second has none and
\* got the default dated 1970-01-03, the clock having passed midnight
C5_Witness ==
    /\ Len(api_calls) = 2
    /\ "s3Prefix" \in DOMAIN api_calls[1].config
    /\ api_calls[1].config.s3Prefix = <<>>
    /\ api_calls[1].params.destinationPrefix
         = ExportsSlash \o NameOf(1) \o <<"/", "1", "9", "7", "0", "-", "0",
                                          "1", "-", "0", "2">>
    /\ "s3Prefix" \notin DOMAIN api_calls[2].config
    /\ api_calls[2].params.destinationPrefix
         = ExportsSlash \o NameOf(2) \o <<"/", "1", "9", "7", "0", "-", "0",
                                          "1", "-", "0", "3">>

\* C6: when the table held no records and the scan answered, handler
\* returns 200 with the 'no configurations' message, no results list, and
\* no export request was issued.
C6_EmptyTable ==
    (Returned /\ table_at_start = <<>> /\ error_site = "none") =>
        /\ response.statusCode = 200
        /\ response.body = JsonString("No log group configurations found")
        /\ "results" \notin DOMAIN response.body
        /\ api_calls = <<>>

C6_Witness ==
    /\ Returned
    /\ table_at_start = <<>>
    /\ error_site = "none"
    /\ response = NoConfigsResponse

----------------------------------------------------------------------------
(* add_log_group.py: the catalog *)

LogGroup(k) == [logGroupName |-> NameOf(k)]

\* the answers of describe_log_groups the model starts from: the groups
\* 1..n, in one page or in pages of one; page p carries nextToken p + 1
\* unless it is the last
CatalogPages ==
    UNION { { <<[k \in 1..n |-> LogGroup(k)]>>,
              IF n = 0 THEN << <<>> >> ELSE [p \in 1..n |-> <<LogGroup(p)>>] } :
            n \in 0..MaxGroups }

\* add_log_group.py 14-24: the pages from token on, joined
RECURSIVE FetchFrom(_, _)
FetchFrom(pages, token) ==
    IF token > Len(pages) THEN <<>>
    ELSE pages[token] \o
           (IF token < Len(pages) THEN FetchFrom(pages, token + 1) ELSE <<>>)

\* add_log_group.py 8-26
GetAllLogGroups(pages) == FetchFrom(pages, 1)

----------------------------------------------------------------------------
(* add_log_group.py: get_log_group_selection *)

LowerChar(c) ==
    CASE c = "A" -> "a"
      [] c = "L" -> "l"
      [] c = "Y" -> "y"
      [] c = "N" -> "n"
      [] OTHER -> c

\* s.lower()
Lower(s) == [k \in 1..Len(s) |-> LowerChar(s[k])]

Contains(s, c) == \E k \in 1..Len(s) : s[k] = c

\* s.split(',')
RECURSIVE SplitComma(_)
SplitComma(s) ==
    IF ~ Contains(s, ",") THEN <<s>>
    ELSE LET k == CHOOSE i \in 1..Len(s) :
                      s[i] = "," /\ \A j \in 1..(i - 1) : s[j] # ","
         IN <<SubSeq(s, 1, k - 1)>> \o SplitComma(SubSeq(s, k + 1, Len(s)))

\* re.compile(pattern) returns (it raises re.error otherwise), for the
\* patterns of the model: literal characters, and "(" which opens a group
RegexCompiles(pattern) == ~ Contains(pattern, "(")

\* regex.search(name) finds a match, for a pattern of literal characters
RegexSearch(pattern, name) ==
    \E i \in 0..(Len(name) - Len(pattern)) :
        SubSeq(name, i + 1, i + Len(pattern)) = pattern

\* add_log_group.py 61
RegexSelect(pattern, groups) ==
    SelectSeq(groups, LAMBDA lg : RegexSearch(pattern, lg.logGroupName))

\* add_log_group.py 57
IsRegexInput(selection) ==
    selection # <<>> /\ Head(selection) = "/" /\ selection[Len(selection)] = "/"

\* add_log_group.py 80-83 return (int raises ValueError otherwise)
IndicesParse(selection) ==
    LET fields == IF Contains(selection, ",") THEN SplitComma(selection)
                  ELSE <<selection>>
    IN \A k \in 1..Len(fields) : IsInt(fields[k])

\* add_log_group.py 80-83
IndicesOf(selection) ==
    LET fields == IF Contains(selection, ",") THEN SplitComma(selection)
                  ELSE <<selection>>
    IN [k \in 1..Len(fields) |-> IntOf(fields[k])]

\* add_log_group.py 87
InRange(idx, total_count) == 1 <= idx /\ idx <= total_count

\* as PickIndices, an index out of range being passed over
RECURSIVE PickIndicesSkipping(_, _)
PickIndicesSkipping(indices, groups) ==
    IF indices = <<>> THEN [complete |-> TRUE, groups |-> <<>>]
    ELSE LET rest == PickIndicesSkipping(Tail(indices), groups)
         IN IF InRange(Head(indices), Len(groups))
            THEN [complete |-> TRUE,
                  groups |-> <<groups[Head(indices)]>> \o rest.groups]
            ELSE rest

\* add_log_group.py 85-92: the groups appended, and whether the loop ran
\* to its end (no break)
RECURSIVE PickIndices(_, _)
PickIndices(indices, groups) ==
    IF indices = <<>> THEN [complete |-> TRUE, groups |-> <<>>]
    ELSE IF ~ InRange(Head(indices), Len(groups))
         THEN [complete |-> FALSE, groups |-> <<>>]
         ELSE LET rest == PickIndices(Tail(indices), groups)
              IN [complete |-> rest.complete,
                  groups |-> <<groups[Head(indices)]>> \o rest.groups]

\* as IsYes, without lower()
IsYesExact(confirm) == confirm = <<"y">>

\* add_log_group.py 71, 99
IsYes(confirm) == Lower(confirm) = <<"y">>

\* add_log_group.py 50-102: what one selection input leads to: "return",
\* "confirm" (the confirmation is asked) or "prompt" (the loop starts
\* over), and the local selected_groups afterwards
EvalSelection(selection, groups, local) ==
    IF Lower(selection) = <<"a", "l", "l">>
    THEN [next |-> "return", local |-> local, value |-> groups]
    ELSE IF IsRegexInput(selection)
    THEN LET pattern == SubSeq(selection, 2, Len(selection) - 1)
         IN IF ~ RegexCompiles(pattern)
            THEN [next |-> "prompt", local |-> local, value |-> <<>>]
            ELSE IF RegexSelect(pattern, groups) = <<>>
            THEN [next |-> "prompt", local |-> <<>>, value |-> <<>>]
            ELSE [next |-> "confirm", local |-> RegexSelect(pattern, groups),
                  value |-> <<>>]
    ELSE IF ~ IndicesParse(selection)
    THEN [next |-> "prompt", local |-> local, value |-> <<>>]
    ELSE LET picked == PickIndices(IndicesOf(selection), groups)
         IN IF picked.complete /\ picked.groups # <<>>
            THEN [next |-> "confirm", local |-> picked.groups, value |-> <<>>]
            ELSE [next |-> "prompt", local |-> picked.groups, value |-> <<>>]

----------------------------------------------------------------------------
(* Terminal input *)

\* one comma-free piece of a selection input: its text, and what it is
Field(text, kind, int, hits) ==
    [text |-> text, kind |-> kind, int |-> int, hits |-> hits]

Fields ==
    { Field(<<Digits[n + 1]>>, "int", n, {}) : n \in 0..(MaxGroups + 1) }
    \cup
    { Field(<<"-", "1">>, "int", -1, {}),
      Field(<<" ", "+", "1", " ">>, "int", 1, {}),
      Field(<<"a", "l", "l">>, "all", 0, {}),
      Field(<<"A", "L", "L">>, "all", 0, {}),
      Field(<<"/", "g", "/">>, "regex", 0, 1..MaxGroups),
      Field(<<"/", "1", "/">>, "regex", 0, {1}),
      Field(<<"/", "z", "/">>, "regex", 0, {}),
      Field(<<"/">>, "regex", 0, 1..MaxGroups),
      Field(<<"/", "(", "/">>, "junk", 0, {}),
      Field(<<"1", " ", "2">>, "junk", 0, {}),
      Field(<<>>, "junk", 0, {}) }

RECURSIVE JoinComma(_)
JoinComma(fs) ==
    IF Len(fs) = 1 THEN fs[1].text
    ELSE fs[1].text \o <<",">> \o JoinComma(Tail(fs))

\* what a selection input made of the fields fs is: a list of integers, a
\* lone 'all', a lone /pattern/ with the groups it matches, or something
\* else
Meaning(fs) ==
    IF \A k \in 1..Len(fs) : fs[k].kind = "int"
    THEN [kind |-> "ints", ints |-> [k \in 1..Len(fs) |-> fs[k].int],
          hits |-> {}]
    ELSE IF Len(fs) = 1
    THEN [kind |-> fs[1].kind, ints |-> <<>>, hits |-> fs[1].hits]
    ELSE [kind |-> "other", ints |-> <<>>, hits |-> {}]

IntFields == {f \in Fields : f.kind = "int"}

\* the field lists of the selection inputs: one field of any kind, or
\* several that are integers but for the last, which may be junk
FieldLists ==
    UNION { {fs \in [1..n -> Fields] :
                /\ \A k \in 1..(n - 1) : fs[k] \in IntFields
                /\ n > 1 => fs[n].kind \in {"int", "junk"}} :
            n \in 1..MaxFields }

SelectionInputs ==
    { [text |-> JoinComma(fs), meaning |-> Meaning(fs)] : fs \in FieldLists }

ConfirmInputs ==
    { [text |-> <<"y">>, yes |-> TRUE],
      [text |-> <<"Y">>, yes |-> TRUE],
      [text |-> <<"n">>, yes |-> FALSE],
      [text |-> <<>>, yes |-> FALSE],
      [text |-> <<" ", "y">>, yes |-> FALSE],
      [text |-> <<"y", "e", "s">>, yes |-> FALSE] }

BucketInputs == {<<>>, BucketB}

PrefixInputs == {<<>>, PrefixP}

AllInRange(ints, n) == \A k \in 1..Len(ints) : ints[k] \in 1..n

\* the integers of the list before the first one outside 1..n
InRangeStart(ints, n) ==
    SubSeq(ints, 1,
           (CHOOSE k \in 1..Len(ints) :
                ints[k] \notin 1..n /\ AllInRange(SubSeq(ints, 1, k - 1), n))
             - 1)

----------------------------------------------------------------------------
(* add_log_group.py: main *)

\* add_log_group.py 106-109
MainUsageError ==
    /\ r_pc = "start"
    /\ r_pc' = "exit"
    /\ exit_code' = 1
    /\ UNCHANGED <<log_groups, selected_groups, offered, answered,
                   rejected, selected_log_groups, s3_bucket_name,
                   s3_prefix, r_j, added_count, put_calls, output>>
    /\ UNCHANGED <<table, clock, EXPORT_TIME_RANGE_MINUTES, hvars>>

\* add_log_group.py 111-120 and 44-47
MainStart ==
    /\ r_pc = "start"
    /\ \E pages \in CatalogPages :
         /\ log_groups' = GetAllLogGroups(pages)
         /\ IF Len(GetAllLogGroups(pages)) = 0
            THEN r_pc' = "exit" /\ exit_code' = 1
            ELSE r_pc' = "select" /\ UNCHANGED exit_code
    /\ UNCHANGED <<selected_groups, offered, answered, rejected,
                   selected_log_groups, s3_bucket_name, s3_prefix, r_j,
                   added_count, put_calls, output>>
    /\ UNCHANGED <<table, clock, EXPORT_TIME_RANGE_MINUTES, hvars>>

\* add_log_group.py 50-102, one input read at the selection prompt
SelectInput ==
    /\ r_pc = "select"
    /\ \E inp \in SelectionInputs :
         \E step \in {EvalSelection(inp.text, log_groups, selected_groups)} :
            /\ offered' = inp.meaning
            /\ answered' = "none"
            /\ rejected' =
                   IF /\ inp.meaning.kind = "ints"
                      /\ ~ AllInRange(inp.meaning.ints, Len(log_groups))
                   THEN <<InRangeStart(inp.meaning.ints, Len(log_groups))>>
                   ELSE rejected
            /\ selected_groups' =
                   IF step.next = "return" THEN <<>> ELSE step.local
            /\ r_pc' = CASE step.next = "return" -> "bucket"
                         [] step.next = "confirm" -> "confirm"
                         [] OTHER -> "select"
            /\ selected_log_groups' =
                   IF step.next = "return" THEN step.value
                   ELSE selected_log_groups
    /\ UNCHANGED <<log_groups, s3_bucket_name, s3_prefix, r_j, added_count,
                   put_calls, output, exit_code>>
    /\ UNCHANGED <<table, clock, EXPORT_TIME_RANGE_MINUTES, hvars>>

\* add_log_group.py 70-73 and 98-100, the answer to "Confirm selection"
ConfirmInput ==
    /\ r_pc = "confirm"
    /\ \E inp \in ConfirmInputs :
         /\ answered' = IF inp.yes THEN "yes" ELSE "other"
         /\ IF IsYes(inp.text)
            THEN /\ r_pc' = "bucket"
                 /\ selected_log_groups' = selected_groups
                 /\ selected_groups' = <<>>
            ELSE /\ r_pc' = "select"
                 /\ UNCHANGED <<selected_log_groups, selected_groups>>
    /\ UNCHANGED <<log_groups, offered, rejected,
                   s3_bucket_name, s3_prefix, r_j, added_count, put_calls,
                   output, exit_code>>
    /\ UNCHANGED <<table, clock, EXPORT_TIME_RANGE_MINUTES, hvars>>

\* add_log_group.py 126-129
BucketInput ==
    /\ r_pc = "bucket"
    /\ \E name \in BucketInputs :
         /\ s3_bucket_name' = name
         /\ IF ~ Truthy(name)
            THEN r_pc' = "exit" /\ exit_code' = 1
            ELSE r_pc' = "prefix" /\ UNCHANGED exit_code
    /\ offered' = NothingOffered
    /\ answered' = "none"
    /\ rejected' = <<>>
    /\ UNCHANGED <<log_groups, selected_groups, selected_log_groups,
                   s3_prefix, r_j, added_count, put_calls, output>>
    /\ UNCHANGED <<table, clock, EXPORT_TIME_RANGE_MINUTES, hvars>>

\* add_log_group.py 132-135
PrefixInput ==
    /\ r_pc = "prefix"
    /\ \E prefix \in PrefixInputs : s3_prefix' = prefix
    /\ r_pc' = "write"
    /\ added_count' = 0
    /\ r_j' = 1
    /\ UNCHANGED <<log_groups, selected_groups, offered, answered,
                   rejected, selected_log_groups, s3_bucket_name,
                   put_calls, output, exit_code>>
    /\ UNCHANGED <<table, clock, EXPORT_TIME_RANGE_MINUTES, hvars>>

\* add_log_group.py 140-148
BuildItem(log_group_name, bucket, prefix, now) ==
    IF Truthy(prefix)
    THEN [logGroupName |-> log_group_name, s3BucketName |-> bucket,
          createdAt |-> IsoFormat(now), s3Prefix |-> prefix]
    ELSE [logGroupName |-> log_group_name, s3BucketName |-> bucket,
          createdAt |-> IsoFormat(now)]

\* as CountAdded, counting the failed writes too
CountAddedAlways(count, ok) == count + 1

\* add_log_group.py 154: the count after a write
CountAdded(count, ok) == IF ok THEN count + 1 ELSE count

\* add_log_group.py 137-156: one pass of the write loop; put_item
\* succeeds or raises
WriteItem ==
    /\ r_pc = "write"
    /\ r_j <= Len(selected_log_groups)
    /\ \E now \in Later(clock) : \E ok \in BOOLEAN :
         LET item == BuildItem(selected_log_groups[r_j].logGroupName,
                               s3_bucket_name, s3_prefix, now)
         IN /\ clock' = now
            /\ table' = IF ok THEN PutItem(table, item) ELSE table
            /\ put_calls' = Append(put_calls, [item |-> item, ok |-> ok])
            /\ added_count' = CountAdded(added_count, ok)
    /\ r_j' = r_j + 1
    /\ UNCHANGED <<log_groups, r_pc, selected_groups, offered, answered,
                   rejected, selected_log_groups, s3_bucket_name,
                   s3_prefix, output, exit_code>>
    /\ UNCHANGED <<EXPORT_TIME_RANGE_MINUTES, hvars>>

\* add_log_group.py 158-161
FinalReport(count) ==
    IF count > 0 THEN [text |-> "Successfully added", count |-> count]
    ELSE [text |-> "No log groups were added"]

\* add_log_group.py 158-161: the loop is over
Report ==
    /\ r_pc = "write"
    /\ r_j > Len(selected_log_groups)
    /\ output' = FinalReport(added_count)
    /\ r_pc' = "exit"
    /\ exit_code' = 0
    /\ UNCHANGED <<log_groups, selected_groups, offered, answered,
                   rejected, selected_log_groups, s3_bucket_name,
                   s3_prefix, r_j, added_count, put_calls>>
    /\ UNCHANGED <<table, clock, EXPORT_TIME_RANGE_MINUTES, hvars>>

\* the operator runs the tool again
MainRerun ==
    /\ r_pc = "exit"
    /\ log_groups' = <<>>
    /\ r_pc' = "start"
    /\ selected_groups' = <<>>
    /\ offered' = NothingOffered
    /\ answered' = "none"
    /\ rejected' = <<>>
    /\ selected_log_groups' = <<>>
    /\ s3_bucket_name' = None
    /\ s3_prefix' = None
    /\ r_j' = 1
    /\ added_count' = 0
    /\ put_calls' = <<>>
    /\ output' = [text |-> "none"]
    /\ exit_code' = -1
    /\ UNCHANGED <<table, clock, EXPORT_TIME_RANGE_MINUTES, hvars>>

InitRegister ==
    /\ table = <<>>
    /\ clock = ClockStart
    /\ EXPORT_TIME_RANGE_MINUTES = ExportTimeRangeMinutes(None)
    /\ HandlerIdle
    /\ MainIdle

NextRegister ==
    \/ MainUsageError
    \/ MainStart
    \/ SelectInput
    \/ ConfirmInput
    \/ BucketInput
    \/ PrefixInput
    \/ WriteItem
    \/ Report

SpecRegister == InitRegister /\ [][NextRegister]_vars

----------------------------------------------------------------------------
(* Claims about the Registration Tool *)

\* get_log_group_selection has returned to main
SelectionReturned == r_pc = "bucket"

\* the sources at the given indices, in the order given
AtIndices(ints, groups) == [k \in 1..Len(ints) |-> groups[ints[k]]]

\* the sources whose index is in hits, in catalog order
RECURSIVE Hit(_, _, _)
Hit(hits, groups, k) ==
    IF k > Len(groups) THEN <<>>
    ELSE (IF k \in hits THEN <<groups[k]>> ELSE <<>>) \o Hit(hits, groups, k + 1)

ValidList == offered.kind = "ints" /\ AllInRange(offered.ints, Len(log_groups))

InvalidList ==
    offered.kind = "ints" /\ ~ AllInRange(offered.ints, Len(log_groups))

\* C7: after a selection input that is a list of integers all in [1,N]:
\* the confirmation is asked; answered y or Y, the parser returns exactly
\* the sources at those indices, in input order, duplicates kept; answered
\* anything else, nothing is returned and the selection prompt is back.
C7_ConfirmedIndices ==
    ValidList =>
        CASE answered = "none" ->
                 r_pc = "confirm" /\ selected_log_groups = <<>>
          [] answered = "yes" ->
                 /\ SelectionReturned
                 /\ selected_log_groups = AtIndices(offered.ints, log_groups)
          [] OTHER ->
                 r_pc = "select" /\ selected_log_groups = <<>>

\* "2,1" or "2, +1 " confirmed: the second source, then the first
C7_Witness ==
    /\ offered.kind = "ints"
    /\ offered.ints = <<2, 1>>
    /\ answered = "yes"
    /\ r_pc = "bucket"
    /\ selected_log_groups = <<LogGroup(2), LogGroup(1)>>

\* what the parser returns for the last input, where the model says
Expected(o, groups) ==
    CASE o.kind = "ints" -> AtIndices(o.ints, groups)
      [] o.kind = "all" -> groups
      [] OTHER -> Hit(o.hits, groups, 1)

\* C8: after a selection input that is a list of integers with one outside
\* [1,N], no confirmation is asked, nothing is returned and the selection
\* prompt is back; and what the parser returns after such a rejection is
\* what its last input alone names.
C8_RejectedBatch ==
    /\ InvalidList =>
           r_pc = "select" /\ answered = "none" /\ selected_log_groups = <<>>
    /\ (rejected # <<>> /\ SelectionReturned
          /\ offered.kind \in {"ints", "all", "regex"}) =>
           selected_log_groups = Expected(offered, log_groups)

\* "1,3" was rejected after its 1 had been appended; then "2" was
\* confirmed and only the second source came back
C8_Witness ==
    /\ rejected = << <<1>> >>
    /\ offered.kind = "ints"
    /\ offered.ints = <<2>>
    /\ r_pc = "bucket"
    /\ selected_log_groups = <<LogGroup(2)>>

OkCount(calls) == Cardinality({k \in 1..Len(calls) : calls[k].ok})

\* C9: the writes attempted are those of the selected sources, one each,
\* in order; a failed write does not end the loop; the count reported is
\* the number of writes that succeeded; 'No log groups were added' is
\* reported exactly when that number is zero; an empty bucket name ends the
\* run with no write attempted.
C9_WriterCounts ==
    /\ Len(put_calls) <= Len(selected_log_groups)
    /\ \A k \in 1..Len(put_calls) :
           put_calls[k].item.logGroupName = selected_log_groups[k].logGroupName
    /\ r_pc = "write" =>
           Len(put_calls) = r_j - 1 /\ added_count = OkCount(put_calls)
    /\ (r_pc = "exit" /\ exit_code = 0) =>
           /\ Len(put_calls) = Len(selected_log_groups)
           /\ IF OkCount(put_calls) = 0
              THEN output = [text |-> "No log groups were added"]
              ELSE output = [text |-> "Successfully added",
                             count |-> OkCount(put_calls)]
    /\ (r_pc = "exit" /\ s3_bucket_name = <<>>) =>
           exit_code = 1 /\ put_calls = <<>> /\ output = [text |-> "none"]

\* two sources selected, the first write failed, the second succeeded
C9_Witness ==
    /\ r_pc = "exit"
    /\ Len(put_calls) = 2
    /\ ~ put_calls[1].ok
    /\ put_calls[2].ok
    /\ output = [text |-> "Successfully added", count |-> 1]

----------------------------------------------------------------------------
(* Runs of the tool and invocations of the scheduled job, one after      *)
(* another, over one table                                                *)

\* the table is empty, or holds one record without s3BucketName that
\* something other than the tool has put there
Init ==
    /\ table \in {t \in Tables : t = <<>> \/ (Len(t) = 1 /\ ~ WellFormed(t))}
    /\ clock = ClockStart
    /\ EXPORT_TIME_RANGE_MINUTES = ExportTimeRangeMinutes(None)
    /\ HandlerIdle
    /\ MainIdle

\* no invocation of handler is under way
HandlerQuiet == h_pc = "idle"

\* no run of the tool is under way
MainQuiet == r_pc = "start"

Next ==
    \/ HandlerQuiet /\ MainUsageError
    \/ HandlerQuiet /\ MainStart
    \/ HandlerQuiet /\ SelectInput
    \/ HandlerQuiet /\ ConfirmInput
    \/ HandlerQuiet /\ BucketInput
    \/ HandlerQuiet /\ PrefixInput
    \/ HandlerQuiet /\ WriteItem
    \/ HandlerQuiet /\ Report
    \/ HandlerQuiet /\ MainRerun
    \/ MainQuiet /\ HandlerScanFails
    \/ MainQuiet /\ HandlerScan
    \/ MainQuiet /\ HandlerRecordKeyError
    \/ MainQuiet /\ HandlerRecord
    \/ MainQuiet /\ HandlerReturn
    \/ MainQuiet /\ HandlerInvoke

Spec == Init /\ [][Next]_vars

----------------------------------------------------------------------------
(* Claims about the table *)

\* C10: no step changes the createdAt of a record that is in the table,
\* and no step of handler changes the table.
C10_CreatedAtNeverChanges ==
    [][/\ \A k \in 1..Len(table) : \A j \in 1..Len(table') :
            table'[j].logGroupName = table[k].logGroupName =>
                table'[j].createdAt = table[k].createdAt
       /\ (h_pc' # h_pc \/ h_i' # h_i) => table' = table]_vars

====
